---- MODULE Spec2Model ----
(***************************************************************************)
(* State-machine model of the tool servers and clients of the repository:  *)
(*   - mcp_basics/filesystem_mcp_server.py  (filesystem-operations tools)  *)
(*   - mcp_gitlab/gitlab_mcp.py             (git-analysis tools)           *)
(*   - mcp_basics/finance_mcp_client.py +                                  *)
(*     mcp_basics/finance_mcp_server.py     (one client call, end to end)  *)
(*   - mcp_gitlab/example_agent.py          (interactive run_agent loop)   *)
(* Each subsystem has its own specification (SpecFS, SpecGit, FairCall,    *)
(* SpecAgent); the variables of the other subsystems stay unchanged.       *)
(***************************************************************************)
EXTENDS Integers, Sequences, FiniteSets, TLC

VARIABLES
    fs,         \* filesystem server: path -> "absent" | "dir" | "text" | "binary"
    fsResult,   \* filesystem server: what the last tool call did
    disk,       \* git server: absolute path -> "absent" | "dir" | "file"
    repos,      \* git server: directories that hold a git work tree
    cloned,     \* git server: URLs for which clone_repository has succeeded
    gitResult,  \* git server: what the last tool call did
    cpc,        \* tool call: position of the client
    hpc,        \* tool call: position of the server-side handler
    call,       \* tool call: the request in flight
    response,   \* tool call: what the client got back
    apc,        \* run_agent: position of the interactive loop
    sessions,   \* run_agent: client sessions opened
    agents,     \* run_agent: agents created
    agentCalls, \* run_agent: calls of agent.aprint_response
    lastInput,  \* run_agent: the line read by the last iteration
    lastStep    \* run_agent: what the last iteration did

fsVars    == <<fs, fsResult>>
gitVars   == <<disk, repos, cloned, gitResult>>
callVars  == <<cpc, hpc, call, response>>
agentVars == <<apc, sessions, agents, agentCalls, lastInput, lastStep>>
vars      == <<fsVars, gitVars, callVars, agentVars>>

----------------------------------------------------------------------------
(* Python exceptions: the classes the handlers can see, and isinstance.    *)

PyBases(t) ==
    CASE t = "PermissionError"    -> {"PermissionError", "OSError", "Exception"}
      [] t = "FileNotFoundError"  -> {"FileNotFoundError", "OSError", "Exception"}
      [] t = "FileExistsError"    -> {"FileExistsError", "OSError", "Exception"}
      [] t = "NotADirectoryError" -> {"NotADirectoryError", "OSError", "Exception"}
      [] t = "IsADirectoryError"  -> {"IsADirectoryError", "OSError", "Exception"}
      [] t = "OSError"            -> {"OSError", "Exception"}
      [] t = "UnicodeDecodeError" -> {"UnicodeDecodeError", "ValueError", "Exception"}
      [] t = "UnicodeEncodeError" -> {"UnicodeEncodeError", "ValueError", "Exception"}
      [] t = "ValueError"         -> {"ValueError", "Exception"}
      [] t = "IndexError"         -> {"IndexError", "Exception"}
      [] t = "TypeError"          -> {"TypeError", "Exception"}
      [] t = "CalledProcessError" -> {"CalledProcessError", "Exception"}
      [] t = "GitCommandError"    -> {"GitCommandError", "Exception"}
      [] t = "InvalidGitRepositoryError" -> {"InvalidGitRepositoryError", "Exception"}
      [] OTHER                    -> {t}

IsInstance(t, cls) == cls \in PyBases(t)

Raise(t, m) == [kind |-> "raise", type |-> t, msg |-> m]

----------------------------------------------------------------------------
(* filesystem_mcp_server.py                                                *)

FsNames == {"a", "b"}
FsPaths == {<<>>} \cup {<<x>> : x \in FsNames}
                  \cup {<<x, y>> : x \in FsNames, y \in FsNames}
FsKinds == {"absent", "dir", "text", "binary"}

Parent(p) == SubSeq(p, 1, Len(p) - 1)
IsPrefix(p, q) == Len(p) <= Len(q) /\ SubSeq(q, 1, Len(p)) = p
Ancestors(p) == {SubSeq(p, 1, n) : n \in 0..(Len(p) - 1)}

\* A tree: the root is a directory and whatever exists sits in directories.
FsTree(f) ==
    /\ f[<<>>] = "dir"
    /\ \A p \in FsPaths : f[p] # "absent" => \A q \in Ancestors(p) : f[q] = "dir"

\* os.path.exists / isdir / isfile
FsExists(f, p) == f[p] # "absent"
FsIsDir(f, p)  == f[p] = "dir"
FsIsFile(f, p) == f[p] \in {"text", "binary"}
FsChildren(f, p) == {q \in FsPaths : Len(q) = Len(p) + 1 /\ IsPrefix(p, q) /\ f[q] # "absent"}

\* json.dumps of a dict with these keys.
Json(ks, m) == [kind |-> "return", keys |-> ks, msg |-> m]
JsonError(m) == Json({"error"}, m)

\* except <cls>: return json.dumps({"error": ...})
ExceptReturn(r, cls, m) ==
    IF r.out.kind = "raise" /\ IsInstance(r.out.type, cls)
    THEN [fs |-> r.fs, out |-> JsonError(m)]
    ELSE r

Done(f, o) == [fs |-> f, out |-> o]

\* os.makedirs(p): creates p and its missing ancestors.
MakedirsFails(f, p) == \E q \in Ancestors(p) \cup {p} : f[q] \in {"text", "binary"}
Makedirs(f, p) == [q \in FsPaths |-> IF q \in Ancestors(p) \cup {p} THEN "dir" ELSE f[q]]

list_directory_body(f, path, fault) ==
    IF ~FsExists(f, path) THEN Done(f, JsonError("does not exist"))
    ELSE IF ~FsIsDir(f, path) THEN Done(f, JsonError("is not a directory"))
    ELSE IF fault = "listdir" THEN Done(f, Raise("PermissionError", "listdir"))
    ELSE IF fault = "stat" /\ FsChildren(f, path) # {}
         THEN Done(f, Raise("FileNotFoundError", "stat"))
    ELSE Done(f, Json({"path", "contents", "count"}, "listed"))

list_directory(f, path, fault) ==
    ExceptReturn(list_directory_body(f, path, fault), "Exception", "An error occurred")

fs_read_file_inner(f, path, fault) ==
    IF fault = "open" THEN Done(f, Raise("PermissionError", "open"))
    ELSE IF f[path] = "binary" THEN Done(f, Raise("UnicodeDecodeError", "read"))
    ELSE IF fault = "getsize" THEN Done(f, Raise("OSError", "getsize"))
    ELSE Done(f, Json({"path", "content", "size"}, "read"))

fs_read_file_body(f, path, fault) ==
    IF ~FsExists(f, path) THEN Done(f, JsonError("does not exist"))
    ELSE IF ~FsIsFile(f, path) THEN Done(f, JsonError("is not a file"))
    ELSE ExceptReturn(fs_read_file_inner(f, path, fault), "UnicodeDecodeError",
                      "is not a text file")

\* read_file without its outer "except Exception".
fs_read_file_uncaught(f, path, fault) == fs_read_file_body(f, path, fault)

fs_read_file(f, path, fault) ==
    ExceptReturn(fs_read_file_body(f, path, fault), "Exception", "An error occurred")

FsModes == {"w", "a", "x"}
FsContents == {"plain", "surrogate"}

\* open(path, mode) followed by file.write(content), from a tree f1.
fs_write_open(f1, path, content, mode, fault) ==
    IF fault = "open" THEN Done(f1, Raise("PermissionError", "open"))
    ELSE IF path = <<>> \/ f1[path] = "dir" THEN Done(f1, Raise("IsADirectoryError", "open"))
    ELSE IF f1[Parent(path)] # "dir"
         THEN Done(f1, Raise(IF f1[Parent(path)] = "absent" THEN "FileNotFoundError"
                                                            ELSE "NotADirectoryError", "open"))
    ELSE LET opened == [f1 EXCEPT ![path] =
                           IF mode = "a" /\ f1[path] = "binary" THEN "binary" ELSE "text"]
         IN  IF content = "surrogate" THEN Done(opened, Raise("UnicodeEncodeError", "write"))
             ELSE IF fault = "getsize" THEN Done(opened, Raise("OSError", "getsize"))
             ELSE Done(opened, Json({"status", "path", "message", "size"}, "written"))

fs_write_file_body(f, path, content, mode, fault) ==
    IF mode \notin {"w", "a"} THEN Done(f, JsonError("Invalid mode"))
    ELSE LET directory == Parent(path)
             needDirs  == path # <<>> /\ directory # <<>> /\ ~FsExists(f, directory)
         IN  IF needDirs /\ fault = "makedirs"
                THEN Done(f, Raise("PermissionError", "makedirs"))
             ELSE IF needDirs /\ MakedirsFails(f, directory)
                THEN Done(f, Raise("NotADirectoryError", "makedirs"))
             ELSE fs_write_open(IF needDirs THEN Makedirs(f, directory) ELSE f,
                                path, content, mode, fault)

fs_write_file(f, path, content, mode, fault) ==
    ExceptReturn(fs_write_file_body(f, path, content, mode, fault), "Exception",
                 "An error occurred")

file_info_body(f, path, fault) ==
    IF ~FsExists(f, path) THEN Done(f, JsonError("does not exist"))
    ELSE IF fault = "stat" THEN Done(f, Raise("PermissionError", "stat"))
    ELSE Done(f, Json({"path", "name", "type", "size", "created", "modified",
                       "accessed", "permissions"}, "info"))

file_info(f, path, fault) ==
    ExceptReturn(file_info_body(f, path, fault), "Exception", "An error occurred")

create_directory_body(f, path, fault) ==
    IF FsExists(f, path) THEN Done(f, JsonError("already exists"))
    ELSE IF fault = "makedirs" THEN Done(f, Raise("PermissionError", "makedirs"))
    ELSE IF MakedirsFails(f, path) THEN Done(f, Raise("NotADirectoryError", "makedirs"))
    ELSE Done(Makedirs(f, path), Json({"status", "path", "message"}, "created"))

create_directory(f, path, fault) ==
    ExceptReturn(create_directory_body(f, path, fault), "Exception", "An error occurred")

Rmtree(f, p) == [q \in FsPaths |-> IF IsPrefix(p, q) THEN "absent" ELSE f[q]]

delete_item_body(f, path, recursive, fault) ==
    IF ~FsExists(f, path) THEN Done(f, JsonError("does not exist"))
    ELSE IF fault = "remove" THEN Done(f, Raise("PermissionError", "remove"))
    ELSE IF path = <<>>
         \* "." cannot be removed: rmtree empties it first, rmdir fails at once.
         THEN Done(IF recursive
                   THEN [q \in FsPaths |-> IF q = <<>> THEN "dir" ELSE "absent"]
                   ELSE f,
                   Raise("OSError", "Invalid argument"))
    ELSE IF ~FsIsDir(f, path)
         THEN Done([f EXCEPT ![path] = "absent"],
                   Json({"status", "path", "type", "message"}, "deleted"))
    ELSE IF recursive
         THEN Done(Rmtree(f, path), Json({"status", "path", "type", "message"}, "deleted"))
    ELSE IF FsChildren(f, path) # {}
         THEN Done(f, Raise("OSError", "Directory not empty"))
    ELSE Done([f EXCEPT ![path] = "absent"],
              Json({"status", "path", "type", "message"}, "deleted"))

\* except OSError: "Directory not empty" gets its own message; except Exception.
delete_item_except(r) ==
    IF r.out.kind = "raise" /\ IsInstance(r.out.type, "OSError")
    THEN [fs |-> r.fs,
          out |-> JsonError(IF r.out.msg = "Directory not empty"
                            THEN "is not empty" ELSE "An error occurred")]
    ELSE ExceptReturn(r, "Exception", "An error occurred")

delete_item(f, path, recursive, fault) ==
    delete_item_except(delete_item_body(f, path, recursive, fault))

FsTools == {"list_directory", "read_file", "write_file", "file_info",
            "create_directory", "delete_item"}

\* One tool call: the handler's return value (or the exception that left it),
\* whether the code inside its try blocks raised, and the item it was given.
FsRecord(tool, path, mode, before, r, raw) ==
    [tool |-> tool, mode |-> mode, was |-> before[path],
     out |-> r.out, raised |-> raw.out.kind = "raise"]

FsListDirectory ==
    \E path \in FsPaths, fault \in {"none", "listdir", "stat"} :
        \E r \in {list_directory(fs, path, fault)} :
        /\ fs' = r.fs
        /\ fsResult' = FsRecord("list_directory", path, "-", fs, r,
                                list_directory_body(fs, path, fault))
        /\ UNCHANGED <<gitVars, callVars, agentVars>>

FsReadFile ==
    \E path \in FsPaths, fault \in {"none", "open", "getsize"} :
        \E r \in {fs_read_file(fs, path, fault)} :
        /\ fs' = r.fs
        /\ fsResult' = FsRecord("read_file", path, "-", fs, r,
                                IF FsIsFile(fs, path)
                                THEN fs_read_file_inner(fs, path, fault)
                                ELSE fs_read_file_body(fs, path, fault))
        /\ UNCHANGED <<gitVars, callVars, agentVars>>

FsWriteFile ==
    \E path \in FsPaths, content \in FsContents, mode \in FsModes,
       fault \in {"none", "makedirs", "open", "getsize"} :
        \E r \in {fs_write_file(fs, path, content, mode, fault)} :
        /\ fs' = r.fs
        /\ fsResult' = FsRecord("write_file", path, mode, fs, r,
                                fs_write_file_body(fs, path, content, mode, fault))
        /\ UNCHANGED <<gitVars, callVars, agentVars>>

FsFileInfo ==
    \E path \in FsPaths, fault \in {"none", "stat"} :
        \E r \in {file_info(fs, path, fault)} :
        /\ fs' = r.fs
        /\ fsResult' = FsRecord("file_info", path, "-", fs, r,
                                file_info_body(fs, path, fault))
        /\ UNCHANGED <<gitVars, callVars, agentVars>>

FsCreateDirectory ==
    \E path \in FsPaths, fault \in {"none", "makedirs"} :
        \E r \in {create_directory(fs, path, fault)} :
        /\ fs' = r.fs
        /\ fsResult' = FsRecord("create_directory", path, "-", fs, r,
                                create_directory_body(fs, path, fault))
        /\ UNCHANGED <<gitVars, callVars, agentVars>>

FsDeleteItem ==
    \E path \in FsPaths, recursive \in BOOLEAN, fault \in {"none", "remove"} :
        \E r \in {delete_item(fs, path, recursive, fault)} :
        /\ fs' = r.fs
        /\ fsResult' = FsRecord("delete_item", path, "-", fs, r,
                                delete_item_body(fs, path, recursive, fault))
        /\ UNCHANGED <<gitVars, callVars, agentVars>>

NoCall == [tool |-> "none"]

FsInit ==
    /\ fs \in {f \in [FsPaths -> FsKinds] : FsTree(f)}
    /\ fsResult = NoCall

FsNext ==
    \/ FsListDirectory
    \/ FsReadFile
    \/ FsWriteFile
    \/ FsFileInfo
    \/ FsCreateDirectory
    \/ FsDeleteItem

----------------------------------------------------------------------------
(* gitlab_mcp.py                                                           *)

\* Absolute paths are sequences of names; TEMP_DIR is created at import.
TEMP_DIR == <<"T">>
GITLAB_TOKEN == "token"

\* A repository URL "https://host/<group>/<last>", <last> cut into the pieces
\* that str.replace(".git", "") tells apart: a name, ".git", or nothing at all
\* (a URL that ends with "/").
GitUrls == { [group |-> "team", last |-> <<"app", ".git">>],
             [group |-> "fork", last |-> <<"app">>],
             [group |-> "team", last |-> <<>>] }

\* repo_url.split("/")[-1].replace(".git", "")
RepoName(repo_url) == SelectSeq(repo_url.last, LAMBDA t : t # ".git")

\* TEMP_DIR / repo_name  (TEMP_DIR / "" is TEMP_DIR)
get_repo_dir(repo_url) == TEMP_DIR \o RepoName(repo_url)

\* file_path arguments: relative or absolute, ".." allowed.
GitFilePaths == { [abs |-> FALSE, parts |-> <<"f">>],
                  [abs |-> FALSE, parts |-> <<"src", "f">>],
                  [abs |-> FALSE, parts |-> <<"..", "lib", "f">>],
                  [abs |-> TRUE,  parts |-> <<"etc", "f">>] }

Kind(d, p) == IF p \in DOMAIN d THEN d[p] ELSE "absent"

\* pathlib: repo_dir / file_path  (an absolute file_path replaces repo_dir)
JoinPath(repo_dir, file_path) ==
    IF file_path.abs THEN file_path.parts ELSE repo_dir \o file_path.parts

\* The path the operating system reaches: ".." steps to the parent.
RECURSIVE ResolveFrom(_, _)
ResolveFrom(at, parts) ==
    IF parts = <<>> THEN at
    ELSE IF Head(parts) = ".." THEN ResolveFrom(Parent(at), Tail(parts))
    ELSE ResolveFrom(Append(at, Head(parts)), Tail(parts))
Resolve(p) == ResolveFrom(<<>>, p)

\* ".." is only stepped from a directory.
RECURSIVE WalkOk(_, _, _)
WalkOk(d, at, parts) ==
    IF parts = <<>> THEN TRUE
    ELSE IF Head(parts) = ".."
         THEN Kind(d, at) = "dir" /\ WalkOk(d, Parent(at), Tail(parts))
         ELSE WalkOk(d, Append(at, Head(parts)), Tail(parts))

\* Path.mkdir(parents=True, exist_ok=True) on the resolved path p.
MkdirParents(d, p) ==
    LET new == {q \in Ancestors(p) \cup {p} : Kind(d, q) = "absent"}
    IN  [q \in DOMAIN d \cup new |-> IF q \in new THEN "dir" ELSE d[q]]
MkdirFails(d, p) == \E q \in Ancestors(p) \cup {p} : Kind(d, q) = "file"

WriteText(d, p) == [q \in DOMAIN d \cup {p} |-> IF q = p THEN "file" ELSE d[q]]

NoFault == [type |-> "none", msg |-> "", stderr |-> ""]
Fault(t, m) == [type |-> t, msg |-> m, stderr |-> ""]
ProcFault(m, e) == [type |-> "CalledProcessError", msg |-> m, stderr |-> e]

Return(v) == [kind |-> "return", value |-> v]
NotFound == Raise("Exception", <<"Repository not found. Clone it first.">>)

\* What one handler run did: the new disk state, what left the handler (out),
\* the fault raised inside it (fault), the paths it read, wrote or created
\* (touched) and the working directories subprocess.run was called with (spawned).
Ran(d, rs, o, ft, t, sp) ==
    [disk |-> d, repos |-> rs, out |-> o, fault |-> ft, touched |-> t, spawned |-> sp]

\* "except OSError as e" in place of "except Exception as e".
ReRaiseOSError(prefix, r) ==
    IF r.fault.type # "none" /\ IsInstance(r.fault.type, "OSError")
    THEN [r EXCEPT !.out = Raise("Exception", <<prefix, r.fault.msg>>)]
    ELSE r

\* except Exception as e: raise Exception(f"<prefix>{str(e)}")
ReRaise(prefix, r) ==
    IF r.fault.type # "none" /\ IsInstance(r.fault.type, "Exception")
    THEN [r EXCEPT !.out = Raise("Exception", <<prefix, r.fault.msg>>)]
    ELSE r

\* Code inside a try block that raised fault ft.
Faulted(d, rs, ft, t, sp) == Ran(d, rs, Raise(ft.type, ft.msg), ft, t, sp)

GitRemote == {"ok", "network error", "detached head"}

\* use_token only changes the URL handed to git (oauth2:<token>@host); whether
\* the remote then answers is the remote's outcome.
clone_repository_body(d, rs, repo_url, use_token, remote) ==
    LET repo_dir == get_repo_dir(repo_url)
        withRepo == rs \cup {repo_dir}
        checkout == MkdirParents(WriteText(d, Append(repo_dir, "f")), repo_dir)
    IN  IF Kind(d, repo_dir) # "absent"
        THEN IF repo_dir \notin rs
                THEN Faulted(d, rs, Fault("InvalidGitRepositoryError", "repo_dir"), {}, {})
             ELSE IF remote = "network error"
                THEN Faulted(d, rs, Fault("GitCommandError", "pull"), {}, {})
             ELSE IF remote = "detached head"
                THEN Faulted(d, rs, Fault("TypeError", "HEAD is detached"), {}, {})
             ELSE Ran(d, rs, Return("updated"), NoFault, {}, {})
        ELSE IF remote = "network error"
                THEN Faulted(d, rs, Fault("GitCommandError", "clone"), {}, {})
             ELSE IF remote = "detached head"
                THEN Faulted(checkout, withRepo, Fault("TypeError", "HEAD is detached"),
                             {}, {})
             ELSE Ran(checkout, withRepo, Return("cloned"), NoFault, {}, {})

clone_repository(d, rs, repo_url, use_token, remote) ==
    ReRaise("Failed to clone repository: ",
            clone_repository_body(d, rs, repo_url, use_token, remote))

GitFaults == {"none", "fault"}

analyze_repository_body(d, rs, repo_url, fault) ==
    LET repo_dir == get_repo_dir(repo_url)
    IN  IF repo_dir \notin rs
           THEN Faulted(d, rs, Fault("InvalidGitRepositoryError", "repo_dir"), {}, {})
        ELSE IF fault = "fault"
           THEN Faulted(d, rs, Fault("GitCommandError", "rev-list"), {}, {})
        ELSE Ran(d, rs, Return("analysis"), NoFault, {}, {})

analyze_repository(d, rs, repo_url, fault) ==
    IF Kind(d, get_repo_dir(repo_url)) = "absent"
    THEN Ran(d, rs, NotFound, NoFault, {}, {})
    ELSE ReRaise("Failed to analyze repository: ",
                 analyze_repository_body(d, rs, repo_url, fault))

\* Command lists: every list over these words, up to MaxCmdLen long.
MaxCmdLen == 2
CmdWords == {"git", "rm"}
GitCommands == UNION {[1..n -> CmdWords] : n \in 0..MaxCmdLen}
GitProcs == {"exit 0", "exit 1", "no executable"}

\* execute_git_command without the check of command[0].
execute_git_command_unchecked(d, rs, repo_url, command, proc) ==
    LET repo_dir == get_repo_dir(repo_url)
    IN  IF command = <<>>
           THEN Faulted(d, rs, Fault("IndexError", "list index out of range"), {}, {})
        ELSE IF proc = "exit 0" /\ Kind(d, repo_dir) = "dir"
           THEN Ran(d, rs, Return("success"), NoFault, {}, {repo_dir})
        ELSE Faulted(d, rs, ProcFault("returned non-zero exit status", "fatal"), {},
                     {repo_dir})

execute_git_command_body(d, rs, repo_url, command, proc) ==
    LET repo_dir == get_repo_dir(repo_url)
    IN  IF command = <<>>
           THEN Faulted(d, rs, Fault("IndexError", "list index out of range"), {}, {})
        ELSE IF ~(command[1] = "git")
           THEN Faulted(d, rs, Fault("ValueError", "Only git commands are allowed"), {}, {})
        ELSE IF Kind(d, repo_dir) # "dir"
           THEN Faulted(d, rs, Fault("NotADirectoryError", "cwd"), {}, {repo_dir})
        ELSE IF proc = "no executable"
           THEN Faulted(d, rs, Fault("FileNotFoundError", "git"), {}, {repo_dir})
        ELSE IF proc = "exit 1"
           THEN Faulted(d, rs, ProcFault("returned non-zero exit status", "fatal"), {}, {repo_dir})
        ELSE Ran(d, rs, Return("success"), NoFault, {}, {repo_dir})

\* except subprocess.CalledProcessError as e: raise Exception(f"Git command failed: {e.stderr}")
execute_git_command_except(r) ==
    IF r.fault.type # "none" /\ IsInstance(r.fault.type, "CalledProcessError")
    THEN [r EXCEPT !.out = Raise("Exception", <<"Git command failed: ", r.fault.stderr>>)]
    ELSE r

execute_git_command(d, rs, repo_url, command, proc) ==
    IF Kind(d, get_repo_dir(repo_url)) = "absent"
    THEN Ran(d, rs, NotFound, NoFault, {}, {})
    ELSE execute_git_command_except(execute_git_command_body(d, rs, repo_url, command, proc))

git_read_file_body(d, rs, repo_url, file_path, fault) ==
    LET repo_dir  == get_repo_dir(repo_url)
        full_path == JoinPath(repo_dir, file_path)
        target    == Resolve(full_path)
    IN  IF ~WalkOk(d, <<>>, full_path) \/ Kind(d, target) = "absent"
           THEN Faulted(d, rs, Fault("FileNotFoundError", "File not found"), {}, {})
        ELSE IF Kind(d, target) = "dir"
           THEN Faulted(d, rs, Fault("IsADirectoryError", "read_text"), {}, {})
        ELSE IF fault = "fault"
           THEN Faulted(d, rs, Fault("PermissionError", "read_text"), {}, {})
        ELSE Ran(d, rs, Return("content"), NoFault, {target}, {})

git_read_file(d, rs, repo_url, file_path, fault) ==
    IF Kind(d, get_repo_dir(repo_url)) = "absent"
    THEN Ran(d, rs, NotFound, NoFault, {}, {})
    ELSE ReRaise("Failed to read file: ", git_read_file_body(d, rs, repo_url, file_path, fault))

git_write_file_body(d, rs, repo_url, file_path, commit_message, fault) ==
    LET repo_dir  == get_repo_dir(repo_url)
        full_path == JoinPath(repo_dir, file_path)
        target    == Resolve(full_path)
        made      == {q \in Ancestors(target) : Kind(d, q) = "absent"}
        d1        == MkdirParents(d, Parent(target))
        d2        == WriteText(d1, target)
    IN  IF ~WalkOk(d, <<>>, full_path)
           THEN Faulted(d, rs, Fault("NotADirectoryError", "mkdir"), {}, {})
        ELSE IF MkdirFails(d, Parent(target))
           THEN Faulted(d, rs, Fault("FileExistsError", "mkdir"), {}, {})
        ELSE IF Kind(d1, target) = "dir"
           THEN Faulted(d1, rs, Fault("IsADirectoryError", "write_text"), made, {})
        ELSE IF fault = "fault"
           THEN Faulted(d1, rs, Fault("PermissionError", "write_text"), made, {})
        ELSE IF ~commit_message
           THEN Ran(d2, rs, Return("written"), NoFault, made \cup {target}, {})
        ELSE IF repo_dir \notin rs
           THEN Faulted(d2, rs, Fault("InvalidGitRepositoryError", "repo_dir"),
                        made \cup {target}, {})
        ELSE IF ~IsPrefix(repo_dir, target)
           THEN Faulted(d2, rs, Fault("ValueError", "path is not in the repository"),
                        made \cup {target}, {})
        ELSE Ran(d2, rs, Return("committed"), NoFault, made \cup {target}, {})

git_write_file(d, rs, repo_url, file_path, commit_message, fault) ==
    IF Kind(d, get_repo_dir(repo_url)) = "absent"
    THEN Ran(d, rs, NotFound, NoFault, {}, {})
    ELSE ReRaise("Failed to write file: ",
                 git_write_file_body(d, rs, repo_url, file_path, commit_message, fault))

GitTools == {"clone_repository", "analyze_repository", "execute_git_command",
             "read_file", "write_file"}

\* The record of one tool call; argv0 is the first word of the command list
\* ("" for an empty list), existed and clonedBefore are taken as the call starts.
GitRecord(tool, repo_url, command, r) ==
    [tool |-> tool, url |-> repo_url, dir |-> get_repo_dir(repo_url),
     existed |-> Kind(disk, get_repo_dir(repo_url)) # "absent",
     clonedBefore |-> repo_url \in cloned,
     argv0 |-> IF command = <<>> THEN "" ELSE command[1],
     out |-> r.out, fault |-> r.fault,
     touched |-> r.touched, spawned |-> r.spawned,
     changed |-> r.disk # disk \/ r.repos # repos]

GitApply(tool, repo_url, command, r) ==
    /\ disk' = r.disk
    /\ repos' = r.repos
    /\ cloned' = IF tool = "clone_repository" /\ r.out.kind = "return"
                 THEN cloned \cup {repo_url} ELSE cloned
    /\ gitResult' = GitRecord(tool, repo_url, command, r)
    /\ UNCHANGED <<fsVars, callVars, agentVars>>

GitClone ==
    \E repo_url \in GitUrls, use_token \in BOOLEAN, remote \in GitRemote :
        \E r \in {clone_repository(disk, repos, repo_url, use_token, remote)} :
            GitApply("clone_repository", repo_url, <<>>, r)

GitAnalyze ==
    \E repo_url \in GitUrls, fault \in GitFaults :
        \E r \in {analyze_repository(disk, repos, repo_url, fault)} :
            GitApply("analyze_repository", repo_url, <<>>, r)

GitExecute ==
    \E repo_url \in GitUrls, command \in GitCommands, proc \in GitProcs :
        \E r \in {execute_git_command(disk, repos, repo_url, command, proc)} :
            GitApply("execute_git_command", repo_url, command, r)

GitReadFile ==
    \E repo_url \in GitUrls, file_path \in GitFilePaths, fault \in GitFaults :
        \E r \in {git_read_file(disk, repos, repo_url, file_path, fault)} :
            GitApply("read_file", repo_url, <<>>, r)

GitWriteFile ==
    \E repo_url \in GitUrls, file_path \in GitFilePaths, commit_message \in BOOLEAN,
       fault \in GitFaults :
        \E r \in {git_write_file(disk, repos, repo_url, file_path, commit_message, fault)} :
            GitApply("write_file", repo_url, <<>>, r)

\* After import: TEMP_DIR exists and is empty; /etc/f is a file of the host.
GitInit ==
    /\ disk = (<<>> :> "dir") @@ (TEMP_DIR :> "dir") @@ (<<"etc">> :> "dir")
              @@ (<<"etc", "f">> :> "file")
    /\ repos = {}
    /\ cloned = {}
    /\ gitResult = NoCall

GitNext ==
    \/ GitClone
    \/ GitAnalyze
    \/ GitExecute
    \/ GitReadFile
    \/ GitWriteFile

----------------------------------------------------------------------------
(* One tool call, end to end: finance_mcp_client.py's run() against           *)
(* finance_mcp_server.py, and a tool call of the agent of example_agent.py    *)
(* against gitlab_mcp.py.                                                     *)

CallClients == {"finance client", "gitlab agent"}

\* The requests a client issues.  run() issues one fixed request; the agent's
\* model picks the tool and its arguments.  accepted: the handler's first checks
\* (a non-empty ticker, an existing repository directory) let the call through.
CallRequests(client) ==
    IF client = "finance client"
    THEN {[tool |-> "get_financial_statements", target |-> "AAPL", accepted |-> TRUE]}
    ELSE [tool : GitTools, target : GitUrls, accepted : BOOLEAN]

\* The operation a handler waits on: yfinance's fetch, GitPython's clone/pull,
\* subprocess.run, a file read or write.  None is given a timeout.
ExternalOp(tool) ==
    CASE tool = "get_financial_statements" -> "finance API fetch"
      [] tool = "clone_repository"         -> "git clone/pull"
      [] tool = "analyze_repository"       -> "git log"
      [] tool = "execute_git_command"      -> "subprocess.run"
      [] OTHER                             -> "file I/O"

NoRequest == [tool |-> "none"]

\* async with stdio_client(...) / ClientSession(...): the server process starts.
CallConnect ==
    /\ cpc = "start"
    /\ \E client \in CallClients : call' = [client |-> client, request |-> NoRequest]
    /\ cpc' = "connected"
    /\ UNCHANGED <<hpc, response, fsVars, gitVars, agentVars>>

\* await session.initialize()  (MCPTools.initialize for the agent)
CallInitialize ==
    /\ cpc = "connected"
    /\ cpc' = "initialized"
    /\ UNCHANGED <<hpc, call, response, fsVars, gitVars, agentVars>>

\* await session.list_tools()
CallListTools ==
    /\ cpc = "initialized"
    /\ cpc' = "listed"
    /\ UNCHANGED <<hpc, call, response, fsVars, gitVars, agentVars>>

\* await session.call_tool(name, arguments): the request is sent and the client
\* waits for the response; no read timeout is passed.
CallTool ==
    /\ cpc = "listed"
    /\ \E req \in CallRequests(call.client) : call' = [call EXCEPT !.request = req]
    /\ cpc' = "awaiting"
    /\ hpc' = "received"
    /\ UNCHANGED <<response, fsVars, gitVars, agentVars>>

\* The handler runs its first checks, then calls out.
HandlerStart ==
    /\ hpc = "received"
    /\ hpc' = IF call.request.accepted THEN "blocked" ELSE "rejected"
    /\ UNCHANGED <<cpc, call, response, fsVars, gitVars, agentVars>>

\* The operation the handler waits on ends, well or badly.  When, and whether,
\* is up to the remote host or the child process.
ExternalReturns ==
    /\ hpc = "blocked"
    /\ \E result \in {"ok", "failed"} : hpc' = result
    /\ UNCHANGED <<cpc, call, response, fsVars, gitVars, agentVars>>

\* The handler returns or raises and the server sends the response.
HandlerRespond ==
    /\ hpc \in {"ok", "failed", "rejected"}
    /\ response' = [tool |-> call.request.tool,
                    isError |-> hpc # "ok",
                    waited |-> IF hpc = "rejected" THEN "nothing"
                               ELSE ExternalOp(call.request.tool)]
    /\ hpc' = "sent"
    /\ UNCHANGED <<cpc, call, fsVars, gitVars, agentVars>>

\* The response reaches the awaiting client.
CallResolve ==
    /\ cpc = "awaiting"
    /\ hpc = "sent"
    /\ cpc' = "done"
    /\ hpc' = "idle"
    /\ UNCHANGED <<call, response, fsVars, gitVars, agentVars>>

CallInit ==
    /\ cpc = "start"
    /\ hpc = "idle"
    /\ call = [client |-> "none", request |-> NoRequest]
    /\ response = NoRequest

CallSteps ==
    \/ CallConnect
    \/ CallInitialize
    \/ CallListTools
    \/ CallTool
    \/ HandlerStart
    \/ HandlerRespond
    \/ CallResolve

CallNext ==
    \/ CallSteps
    \/ ExternalReturns

----------------------------------------------------------------------------
(* example_agent.py: run_agent                                             *)

\* input() returns the line typed.  Lines are sequences of characters: every line
\* of up to MaxInputLen characters of AgentChars, and some longer ones.
MaxInputLen == 3
MaxQueries == 2
AgentChars == {"b", "y", "e", "B", " "}
LongInputs == { <<"e", "x", "i", "t">>, <<"E", "x", "I", "T">>, <<"Q", "U", "I", "T">>,
                <<"q", "u", "i", "t">>, <<" ", "e", "x", "i", "t">>,
                <<"e", "x", "i", "t", " ">>, <<"e", "x", "i", "t", "s">>,
                <<"\t", " ">> }
AgentInputs == UNION {[1..n -> AgentChars] : n \in 0..MaxInputLen} \cup LongInputs

\* str.lower, one character at a time
LowerChar(c) ==
    CASE c = "B" -> "b" [] c = "Y" -> "y" [] c = "E" -> "e" [] c = "X" -> "x"
      [] c = "I" -> "i" [] c = "T" -> "t" [] c = "Q" -> "q" [] c = "U" -> "u"
      [] OTHER -> c
lower(s) == [i \in 1..Len(s) |-> LowerChar(s[i])]

\* str.strip
IsSpace(c) == c \in {" ", "\t", "\n"}
RECURSIVE lstrip(_)
lstrip(s) == IF s # <<>> /\ IsSpace(Head(s)) THEN lstrip(Tail(s)) ELSE s
RECURSIVE rstrip(_)
rstrip(s) == IF s # <<>> /\ IsSpace(s[Len(s)]) THEN rstrip(SubSeq(s, 1, Len(s) - 1)) ELSE s
strip(s) == rstrip(lstrip(s))

ExitWords == { <<"e", "x", "i", "t">>, <<"q", "u", "i", "t">>, <<"b", "y", "e">> }

\* The comparison without .lower().
wants_exit_cased(user_input) == user_input \in ExitWords

\* user_input.lower() in ["exit", "quit", "bye"]
wants_exit(user_input) == lower(user_input) \in ExitWords
\* not user_input.strip()
is_empty(user_input) == strip(user_input) = <<>>

\* What a pass of the loop did; afterError: the pass before it reported an error.
NoStep == [kind |-> "none", called |-> FALSE, raised |-> FALSE, afterError |-> FALSE]

\* The banner, the two context managers and create_gitlab_agent(session).
AgentStart ==
    /\ apc = "start"
    /\ sessions' = sessions + 1
    /\ agents' = agents + 1
    /\ apc' = "prompt"
    /\ UNCHANGED <<agentCalls, lastInput, lastStep, fsVars, gitVars, callVars>>

\* One pass of the while loop that ends at the break.
AgentExit ==
    /\ apc = "prompt"
    /\ \E user_input \in AgentInputs :
        /\ wants_exit(user_input)
        /\ lastInput' = user_input
    /\ lastStep' = [kind |-> "goodbye", called |-> FALSE, raised |-> FALSE,
                    afterError |-> lastStep.raised]
    /\ apc' = "done"
    /\ UNCHANGED <<sessions, agents, agentCalls, fsVars, gitVars, callVars>>

\* One pass that ends at the continue.
AgentSkip ==
    /\ apc = "prompt"
    /\ \E user_input \in AgentInputs :
        /\ ~wants_exit(user_input)
        /\ is_empty(user_input)
        /\ lastInput' = user_input
    /\ lastStep' = [kind |-> "skipped", called |-> FALSE, raised |-> FALSE,
                    afterError |-> lastStep.raised]
    /\ UNCHANGED <<apc, sessions, agents, agentCalls, fsVars, gitVars, callVars>>

\* One pass through the try block: agent.aprint_response returns or raises.
AgentQuery ==
    /\ apc = "prompt"
    /\ agentCalls < MaxQueries
    /\ \E user_input \in AgentInputs, raises \in BOOLEAN :
        /\ ~wants_exit(user_input)
        /\ ~is_empty(user_input)
        /\ lastInput' = user_input
        /\ lastStep' = [kind |-> IF raises THEN "error reported" ELSE "answered",
                        called |-> TRUE, raised |-> raises,
                        afterError |-> lastStep.raised]
    /\ agentCalls' = agentCalls + 1
    /\ UNCHANGED <<apc, sessions, agents, fsVars, gitVars, callVars>>

AgentInit ==
    /\ apc = "start"
    /\ sessions = 0
    /\ agents = 0
    /\ agentCalls = 0
    /\ lastInput = <<>>
    /\ lastStep = NoStep

AgentNext ==
    \/ AgentStart
    \/ AgentExit
    \/ AgentSkip
    \/ AgentQuery

----------------------------------------------------------------------------
\* A specification starts its own subsystem in every state it can start in and
\* holds the others at one fixed start state.
FsIdle == fs = [p \in FsPaths |-> IF p = <<>> THEN "dir" ELSE "absent"] /\ fsResult = NoCall

InitFS  == FsInit /\ GitInit /\ CallInit /\ AgentInit
InitGit == FsIdle /\ GitInit /\ CallInit /\ AgentInit

SpecFS    == InitFS /\ [][FsNext]_vars
SpecGit   == InitGit /\ [][GitNext]_vars
SpecAgent == InitGit /\ [][AgentNext]_vars

\* The client, the server and the handler are scheduled by the event loop: a step
\* of theirs that can be taken is taken.  Nothing makes the remote host or the
\* child process answer.
FairCall == InitGit /\ [][CallNext]_vars /\ WF_vars(CallSteps)

----------------------------------------------------------------------------
(* The claims.                                                             *)

\* The call was refused by the handler's own checks.
FsRefused(r) ==
    CASE r.tool = "list_directory"   -> r.was # "dir"
      [] r.tool = "read_file"        -> r.was \notin {"text", "binary"}
      [] r.tool = "write_file"       -> r.mode \notin {"w", "a"}
      [] r.tool = "file_info"        -> r.was = "absent"
      [] r.tool = "create_directory" -> r.was # "absent"
      [] r.tool = "delete_item"      -> r.was = "absent"

\* C1: every tool of the filesystem-operations server returns a JSON string and
\* never raises; the object has an "error" key, and no other, exactly when the
\* call was refused (missing path, wrong item type, bad mode) or a library call
\* inside it failed (permission, undecodable file, non-empty directory); a
\* successful call has no "error" key.
C1_ErrorsAreData ==
    fsResult.tool \in FsTools =>
        /\ fsResult.out.kind = "return"
        /\ ("error" \in fsResult.out.keys) <=> (FsRefused(fsResult) \/ fsResult.raised)
        /\ ("error" \in fsResult.out.keys) => fsResult.out.keys = {"error"}

\* C1 witness: delete_item met a non-empty directory and reported it as data.
C1_Witness ==
    /\ fsResult.tool = "delete_item"
    /\ fsResult.raised
    /\ fsResult.out = JsonError("is not empty")

GitPrefix(tool) ==
    CASE tool = "clone_repository"   -> "Failed to clone repository: "
      [] tool = "analyze_repository" -> "Failed to analyze repository: "
      [] tool = "read_file"          -> "Failed to read file: "
      [] tool = "write_file"         -> "Failed to write file: "
      [] OTHER                       -> "Git command failed: "

C3_EveryCallResolves == (cpc = "awaiting") ~> (cpc = "done")

OnlyGitAllowed == Raise("ValueError", "Only git commands are allowed")

\* C4 as stated: execute_git_command starts a subprocess only for a command whose
\* first element is "git", in the repository's directory; every command whose
\* first element is something else raises ValueError and starts nothing.
C4_OnlyGit ==
    gitResult.tool = "execute_git_command" =>
        /\ gitResult.spawned # {} =>
              gitResult.argv0 = "git" /\ gitResult.spawned = {get_repo_dir(gitResult.url)}
        /\ gitResult.argv0 \notin {"", "git"} =>
              gitResult.out = OnlyGitAllowed /\ gitResult.spawned = {}

\* C4 as amended: execute_git_command starts a subprocess only for a command whose
\* first element is "git", in the repository's directory; a command whose first
\* element is something else starts nothing, and raises ValueError when the
\* repository's directory exists and "Repository not found. Clone it first."
\* when it does not.
C4_OnlyGitWhenPresent ==
    gitResult.tool = "execute_git_command" =>
        /\ gitResult.spawned # {} =>
              gitResult.argv0 = "git" /\ gitResult.spawned = {get_repo_dir(gitResult.url)}
        /\ gitResult.argv0 \notin {"", "git"} =>
              /\ gitResult.spawned = {}
              /\ gitResult.existed => gitResult.out = OnlyGitAllowed
              /\ ~gitResult.existed => gitResult.out = NotFound

\* C4 witness: a command that does not start with "git", refused in a cloned
\* repository.
C4_Witness ==
    /\ gitResult.tool = "execute_git_command"
    /\ gitResult.argv0 = "rm"
    /\ gitResult.url \in cloned
    /\ gitResult.out = OnlyGitAllowed
    /\ gitResult.spawned = {}

\* C5: analyze_repository, execute_git_command, read_file and write_file raise
\* "Repository not found. Clone it first." and change nothing unless an earlier
\* clone_repository of the same URL has succeeded.
C5_CloneFirst ==
    (gitResult.tool \in GitTools \ {"clone_repository"} /\ ~gitResult.clonedBefore) =>
        gitResult.out = NotFound /\ ~gitResult.changed

\* C6: the first successful clone_repository of a URL returns 'cloned' and every
\* later one 'updated'; the action is 'updated' exactly when the repository's
\* directory existed as the call started.
C6_ClonedOnce ==
    (gitResult.tool = "clone_repository" /\ gitResult.out.kind = "return") =>
        /\ gitResult.out.value = "updated" <=> gitResult.existed
        /\ gitResult.out.value = "cloned" <=> ~gitResult.clonedBefore

\* C7: the file read_file reads, the file write_file writes and every directory
\* write_file creates lie inside the repository's directory.
C7_InsideRepository ==
    gitResult.tool \in {"read_file", "write_file"} =>
        \A p \in gitResult.touched : IsPrefix(get_repo_dir(gitResult.url), p)

\* The line is one of the words, letter case aside.
UpperChar(c) ==
    CASE c = "e" -> "E" [] c = "x" -> "X" [] c = "i" -> "I" [] c = "t" -> "T"
      [] c = "q" -> "Q" [] c = "u" -> "U" [] c = "b" -> "B" [] c = "y" -> "Y"
SameIgnoringCase(s, w) ==
    Len(s) = Len(w) /\ \A i \in 1..Len(w) : s[i] = w[i] \/ s[i] = UpperChar(w[i])
TypedExit(s) == \E w \in ExitWords : SameIgnoringCase(s, w)
OnlyWhitespace(s) == \A i \in 1..Len(s) : s[i] \in {" ", "\t", "\n"}

====
